---- MODULE Spec2Model ----
(***************************************************************************)
(* OptiCloud server: tiered storage with a copy-verify-delete migration    *)
(* between the three tier collections (HotTierFiles, WarmTierFiles,        *)
(* ColdTierFiles), the scheduled migration sweep, the manual migration     *)
(* route and the recovery job for stuck migrations.                        *)
(*                                                                         *)
(* Every step below is one database operation (one await) of the code, so  *)
(* that the interleavings of the sweep, a manual request and the recovery  *)
(* job on the Node event loop are the interleavings of the actions.        *)
(***************************************************************************)
EXTENDS Integers, Sequences, FiniteSets, TLC

----------------------------------------------------------------------------
(* Bounds of the model *)

\* ObjectIds ever issued (uploads and migration copies together)
MaxIds == 2
\* uploads after the initial state
MaxUploads == 1
\* clock ticks
MaxTicks == 1
\* process crashes
MaxCrashes == 1
\* faults of the store (a garbled write, a rejected operation)
MaxFaults == 1
\* the same for runs in which the calls do not overlap
SeqMaxIds == 4
SeqMaxFaults == 3
\* the oldest last access, in days, of the runs that only classify
DecideMaxDays == 92
\* ObjectIds available in the runs of the sweep over two files
SweepMaxIds == 5
\* console calls in the runs of the log buffer, and those made while the
\* array a getLogs call returned is in use
MaxPushes == 1003
MaxHeldPushes == 1

----------------------------------------------------------------------------
(* Values *)

Tiers == {"HOT", "WARM", "COLD"}
tierNames == <<"HOT", "WARM", "COLD">>

NoId == 0
Null == "null"
NoDate == -1000000

\* the clock counts minutes; a tick of the clock is a little more than the
\* ten minutes of the recovery job's recency window
TenMinutes == 10
DayLength == 1440
TickLength == 11

FileNames == {"a.txt"}
Buffers == {"b1", "b2"}
\* what a faulty write leaves in place of the bytes
Garbled == "bX"
AllBuffers == Buffers \cup {Garbled}

\* buffer.toString('base64') and Buffer.from(s, 'base64')
toBase64(buffer) ==
    CASE buffer = "b1" -> "YjE="
      [] buffer = "b2" -> "YjI="
      [] OTHER -> "Ylg="
fromBase64(s) == CHOOSE b \in AllBuffers : toBase64(b) = s

\* crypto.createHash('md5').update(buffer).digest('hex')
calculateBufferHash(buffer) ==
    CASE buffer = "b1" -> "md5-1f"
      [] buffer = "b2" -> "md5-7c"
      [] OTHER -> "md5-e0"

MAX_RETRY_ATTEMPTS == 3
MAX_ENTRIES == 1000

----------------------------------------------------------------------------
(* State *)

VARIABLES
    collections,      \* tier -> (ObjectId -> document): the three collections
    nextId,           \* next ObjectId to be issued
    now,              \* the clock, in minutes
    totalMigrations,  \* MigrationStats.totalMigrations
    mig,              \* caller -> the frame of its migrateFile call
    filesToMigrate,   \* the sweep's remaining candidates
    recovery,         \* the frame of recoverStuckMigrations
    uploads,          \* uploads so far
    crashes,          \* process crashes so far
    faults,           \* faults of the store so far, by kind
    bound,            \* the bounds of the run; never changes
    api,              \* the frame of a download or delete request
    log               \* the log buffer and the array a getLogs call returned

vars == <<collections, nextId, now, totalMigrations, mig, filesToMigrate,
          recovery, uploads, crashes, faults, bound, api, log>>

\* the two callers of migrateFile: the Agenda job and POST /:id/migrate
Procs == {"sweep", "manual"}

\* the store garbles a write or rejects an operation only within the bound
NoFaults == [garbled |-> 0, rejected |-> 0]
FaultAllowed == faults.garbled + faults.rejected < bound.faults

----------------------------------------------------------------------------
(* The File schema and the Mongoose operations the code uses *)

\* Paths of FileSchema, plus createdAt (timestamps: true).  logicalObject is
\* not a field of the code: it labels the upload a document descends from
\* and is copied with the document, so that properties can speak of "the
\* same object".  The schema is strict: any other path is dropped on write.
SchemaPaths ==
    {"logicalObject", "fileName", "originalFileName", "fileData", "size",
     "checksum", "isLocked", "migrationStatus", "retryAttempts",
     "lastMigrationDate", "lastAccessDate", "uploadDate", "contentType",
     "createdAt"}

SchemaDefault(path) ==
    CASE path = "isLocked" -> FALSE
      [] path = "migrationStatus" -> "IDLE"
      [] path = "retryAttempts" -> 0
      [] path = "lastMigrationDate" -> NoDate
      [] path = "lastAccessDate" -> now
      [] path = "uploadDate" -> now
      [] path = "createdAt" -> now
      [] path = "contentType" -> "application/octet-stream"
      [] path = "logicalObject" -> NoId
      [] OTHER -> Null

\* new Model(fields): only schema paths are kept, the others get defaults
NewDocument(fields) ==
    [path \in SchemaPaths |->
        IF path \in DOMAIN fields THEN fields[path] ELSE SchemaDefault(path)]

\* doc.path for a path that may be absent from the schema (undefined)
Get(doc, path) == IF path \in DOMAIN doc THEN doc[path] ELSE Null

\* the $set of an update under the strict schema
ApplyPatch(doc, patch) ==
    [path \in DOMAIN doc |->
        IF path \in DOMAIN patch THEN patch[path] ELSE doc[path]]

Exists(colls, tier, id) == id \in DOMAIN colls[tier]

\* Model.findByIdAndUpdate(id, patch): no document, no change
findByIdAndUpdate(colls, tier, id, patch) ==
    IF Exists(colls, tier, id)
    THEN [colls EXCEPT ![tier][id] = ApplyPatch(@, patch)]
    ELSE colls

\* Model.findByIdAndDelete(id)
findByIdAndDelete(colls, tier, id) ==
    [colls EXCEPT ![tier] = [i \in (DOMAIN @) \ {id} |-> @[i]]]

\* doc.save() of a new document
insertDocument(colls, tier, id, doc) ==
    [colls EXCEPT ![tier] = (id :> doc) @@ @]

\* the ids of a collection in natural (insertion) order
RECURSIVE SortedIds(_)
SortedIds(S) ==
    IF S = {} THEN <<>>
    ELSE LET m == CHOOSE x \in S : \A y \in S : x <= y
         IN <<m>> \o SortedIds(S \ {m})

----------------------------------------------------------------------------
(* Decision engine *)

HOT_maxDaysSinceAccess == 30
WARM_minDaysSinceAccess == 31
WARM_maxDaysSinceAccess == 90
Infinity == 1000000

Abs(x) == IF x < 0 THEN -x ELSE x
Ceil(a, b) == (a + b - 1) \div b

getDaysSinceAccess(lastAccessDate, clock) ==
    IF lastAccessDate = NoDate THEN Infinity
    ELSE Ceil(Abs(clock - lastAccessDate), DayLength)

\* a variant with the HOT bound exclusive
evaluateTierExclusive(file, clock) ==
    LET daysSinceAccess == getDaysSinceAccess(file.lastAccessDate, clock) IN
    IF daysSinceAccess < HOT_maxDaysSinceAccess THEN "HOT"
    ELSE IF daysSinceAccess <= WARM_maxDaysSinceAccess THEN "WARM"
    ELSE "COLD"

evaluateTier(file, clock) ==
    LET daysSinceAccess == getDaysSinceAccess(file.lastAccessDate, clock) IN
    IF daysSinceAccess <= HOT_maxDaysSinceAccess THEN "HOT"
    ELSE IF daysSinceAccess >= WARM_minDaysSinceAccess
            /\ daysSinceAccess <= WARM_maxDaysSinceAccess THEN "WARM"
    ELSE "COLD"

\* a variant that indicates a move for every file
shouldMigrateAlways(file, currentTier, clock) ==
    [shouldMigrate |-> TRUE, targetTier |-> evaluateTier(file, clock)]

shouldMigrate(file, currentTier, clock) ==
    LET targetTier == evaluateTier(file, clock) IN
    IF targetTier # currentTier
    THEN [shouldMigrate |-> TRUE, targetTier |-> targetTier]
    ELSE [shouldMigrate |-> FALSE, targetTier |-> currentTier]

\* a variant of the query without the status
Unlocked(colls, tier) ==
    {id \in DOMAIN colls[tier] : colls[tier][id].isLocked = FALSE}

\* Model.find({migrationStatus: 'IDLE', isLocked: false}) of one tier
IdleUnlocked(colls, tier) ==
    {id \in DOMAIN colls[tier] :
        /\ colls[tier][id].migrationStatus = "IDLE"
        /\ colls[tier][id].isLocked = FALSE}

CandidatesOfTier(colls, tier, clock) ==
    LET ids == {id \in IdleUnlocked(colls, tier) :
                  shouldMigrate(colls[tier][id], tier, clock).shouldMigrate}
        order == SortedIds(ids)
    IN [k \in 1..Len(order) |->
          [id |-> order[k], currentTier |-> tier,
           targetTier |->
             shouldMigrate(colls[tier][order[k]], tier, clock).targetTier]]

\* a variant of the scan that leaves the COLD collection out
getFilesForMigrationHotWarm(colls, clock) ==
    CandidatesOfTier(colls, "HOT", clock)
      \o CandidatesOfTier(colls, "WARM", clock)

getFilesForMigration(colls, clock) ==
    CandidatesOfTier(colls, "HOT", clock)
      \o CandidatesOfTier(colls, "WARM", clock)
      \o CandidatesOfTier(colls, "COLD", clock)

----------------------------------------------------------------------------
(* Frames *)

\* the locals of one migrateFile call
IdleFrame ==
    [pc |-> "idle", fileId |-> NoId, currentTier |-> "HOT",
     targetTier |-> "HOT", fileInfo |-> <<>>, newFileDoc |-> NoId,
     sourceHashBefore |-> Null, targetHashAfter |-> Null, error |-> Null]

\* migrateFile(fileId, currentTier, targetTier) has just been called
CallFrame(fileId, currentTier, targetTier) ==
    [IdleFrame EXCEPT !.pc = "lock", !.fileId = fileId,
                      !.currentTier = currentTier, !.targetTier = targetTier]

\* the locals of one recoverStuckMigrations call
IdleRecovery ==
    [pc |-> "idle", i |-> 1, stuckFiles |-> <<>>, j |-> 1,
     duplicate |-> <<>>]

\* the locals of one GET /:id/download or DELETE /:id request; deleted is
\* not a local of the code: it keeps the objects whose deletion the server
\* has carried out for a user, so that properties can speak of them
IdleApi ==
    [pc |-> "idle", fileId |-> NoId, tier |-> "HOT", file |-> <<>>,
     deleted |-> {}]

\* utils/logBuffer.js: entries, the module's array, holds the entry
\* objects, each named here by the ordinal of the console call that made
\* it.  pushed counts the console calls since the process started and
\* written keeps the stored entries that had a field overwritten; neither
\* is a variable of the code.  result is the array the last getLogs call
\* returned, while its caller still has it; shared tells whether it is the
\* very array entries.
IdleLog ==
    [entries |-> <<>>, pushed |-> 0, written |-> {}, held |-> FALSE,
     result |-> <<>>, shared |-> FALSE, since |-> 0, mutated |-> FALSE]

\* the _id of a document that was constructed but never saved: it is in no
\* collection
UnsavedId == 0 - 1

\* where a throw inside the try block of migrateFile lands
CatchEntry(newFileDoc) == IF newFileDoc # NoId THEN "cleanup" ELSE "handle"

----------------------------------------------------------------------------
(* Initial state: one file uploaded earlier, idle, in some tier *)

InitialFile(lastAccess, created) ==
    [logicalObject |-> 1, fileName |-> "a.txt", originalFileName |-> "a.txt",
     fileData |-> toBase64("b1"), size |-> 2,
     checksum |-> calculateBufferHash("b1"),
     isLocked |-> FALSE, migrationStatus |-> "IDLE", retryAttempts |-> 0,
     lastMigrationDate |-> NoDate, lastAccessDate |-> lastAccess,
     uploadDate |-> created, contentType |-> "text/plain",
     createdAt |-> created]

EmptyCollection == [id \in {} |-> 0]

\* last accessed 45 or 100 days ago, and in a tier that is no longer the
\* one for that age; created just now or ten days ago
InitialAccess == {0 - 45 * DayLength, 0 - 100 * DayLength}
InitialCreated == {0, 0 - 10 * DayLength}

InitialCollections ==
    {[t \in Tiers |->
        IF t = tier THEN (1 :> InitialFile(lastAccess, created))
        ELSE EmptyCollection] :
     tier \in Tiers, lastAccess \in InitialAccess,
     created \in InitialCreated}

Misplaced(colls) ==
    \E t \in Tiers : \E id \in DOMAIN colls[t] :
       evaluateTier(colls[t][id], 0) # t

Init ==
    /\ collections \in {c \in InitialCollections : Misplaced(c)}
    /\ nextId = 2
    /\ now = 0
    /\ totalMigrations = 0
    /\ mig = [p \in Procs |-> IdleFrame]
    /\ filesToMigrate = <<>>
    /\ recovery = IdleRecovery
    /\ uploads = 0
    /\ crashes = 0
    /\ faults = NoFaults
    /\ api = IdleApi
    /\ log = IdleLog
    /\ bound = [ids |-> MaxIds, uploads |-> MaxUploads, ticks |-> MaxTicks,
                crashes |-> MaxCrashes, faults |-> MaxFaults]

----------------------------------------------------------------------------
(* migrationService.js: lockFile, unlockFile, verifyFileIntegrity *)

\* a variant of the lock that updates by tier instead of by _id
lockFileTier(colls, fileId, currentTier) ==
    [colls EXCEPT ![currentTier] =
        [id \in DOMAIN @ |->
            ApplyPatch(@[id], [isLocked |-> TRUE,
                               migrationStatus |-> "PROCESSING"])]]

lockFile(colls, fileId, currentTier) ==
    findByIdAndUpdate(colls, currentTier, fileId,
                      [isLocked |-> TRUE, migrationStatus |-> "PROCESSING"])

unlockFile(colls, fileId, tier, status) ==
    findByIdAndUpdate(colls, tier, fileId,
                      [isLocked |-> FALSE, migrationStatus |-> status])

verifyFileIntegrity(file) == calculateBufferHash(fromBase64(file.fileData))

----------------------------------------------------------------------------
(* migrateFile, one database operation per step *)

\* a variant of step 1 that starts over when the file is missing
LockStepRetrying(p) ==
    LET f == mig[p] IN
    /\ f.pc = "lock"
    /\ IF Exists(collections, f.currentTier, f.fileId)
       THEN /\ collections' = lockFile(collections, f.fileId, f.currentTier)
            /\ mig' = [mig EXCEPT
                 ![p].fileInfo = <<collections'[f.currentTier][f.fileId]>>,
                 ![p].sourceHashBefore =
                     verifyFileIntegrity(collections[f.currentTier][f.fileId]),
                 ![p].pc = "setVerifying"]
       ELSE /\ collections' = collections
            /\ mig' = [mig EXCEPT ![p].error = "NotFound", ![p].pc = "lock"]
    /\ UNCHANGED <<nextId, now, totalMigrations, filesToMigrate, recovery,
                   uploads, crashes, faults, bound, api, log>>

\* Step 1: lock the file; a missing file throws before fileInfo is set, so
\* the catch block rethrows at once.  Step 2's hash is computed from the
\* document lockFile returned.
LockStep(p) ==
    LET f == mig[p] IN
    /\ f.pc = "lock"
    /\ IF Exists(collections, f.currentTier, f.fileId)
       THEN /\ collections' = lockFile(collections, f.fileId, f.currentTier)
            /\ mig' = [mig EXCEPT
                 ![p].fileInfo = <<collections'[f.currentTier][f.fileId]>>,
                 ![p].sourceHashBefore =
                     verifyFileIntegrity(collections[f.currentTier][f.fileId]),
                 ![p].pc = "setVerifying"]
       ELSE /\ collections' = collections
            /\ mig' = [mig EXCEPT ![p].error = "NotFound", ![p].pc = "threw"]
    /\ UNCHANGED <<nextId, now, totalMigrations, filesToMigrate, recovery,
                   uploads, crashes, faults, bound, api, log>>

\* Step 2's update of the source, then step 3's comparison with the stored
\* checksum
SetVerifyingStep(p) ==
    LET f == mig[p]
        file == f.fileInfo[1]
    IN
    /\ f.pc = "setVerifying"
    /\ collections' =
         findByIdAndUpdate(collections, f.currentTier, f.fileId,
            [migrationStatus |-> "VERIFYING",
             sourceChecksumBeforeMigration |-> f.sourceHashBefore])
    /\ mig' = IF file.checksum # Null /\ f.sourceHashBefore # file.checksum
              THEN [mig EXCEPT ![p].error = "IntegrityError",
                               ![p].pc = "markFailed"]
              ELSE [mig EXCEPT ![p].pc = "save"]
    /\ UNCHANGED <<nextId, now, totalMigrations, filesToMigrate, recovery,
                   uploads, crashes, faults, bound, api, log>>

\* unlockFile(fileId, currentTier, 'FAILED') of steps 3 and 6, then the throw
MarkFailedStep(p) ==
    LET f == mig[p] IN
    /\ f.pc = "markFailed"
    /\ collections' = unlockFile(collections, f.fileId, f.currentTier, "FAILED")
    /\ mig' = [mig EXCEPT ![p].pc = CatchEntry(f.newFileDoc)]
    /\ UNCHANGED <<nextId, now, totalMigrations, filesToMigrate, recovery,
                   uploads, crashes, faults, bound, api, log>>

\* a variant of the document of step 4 that is IDLE and unlocked at once
TargetDocumentCommitted(file, sourceHashBefore, storedData) ==
    NewDocument(
      [logicalObject |-> file.logicalObject,
       fileName |-> file.fileName,
       originalFileName |-> file.originalFileName,
       fileData |-> storedData,
       size |-> file.size,
       checksum |-> sourceHashBefore,
       contentType |-> file.contentType,
       lastAccessDate |-> file.lastAccessDate,
       uploadDate |-> file.uploadDate,
       lastMigrationDate |-> now,
       migrationStatus |-> "IDLE",
       isLocked |-> FALSE,
       retryAttempts |-> 0])

\* a variant of the document of step 4 that takes the defaults for the
\* upload date and the content type
TargetDocumentFresh(file, sourceHashBefore, storedData) ==
    NewDocument(
      [logicalObject |-> file.logicalObject,
       fileName |-> file.fileName,
       originalFileName |-> file.originalFileName,
       fileData |-> storedData,
       size |-> file.size,
       checksum |-> sourceHashBefore,
       lastAccessDate |-> file.lastAccessDate,
       lastMigrationDate |-> now,
       migrationStatus |-> "VERIFYING",
       isLocked |-> TRUE,
       retryAttempts |-> 0])

\* the document step 4 builds from the locked source
\* a variant of the copy that leaves lastAccessDate to the schema default
TargetDocumentTouched(file, sourceHashBefore, storedData) ==
    NewDocument(
      [logicalObject |-> file.logicalObject,
       fileName |-> file.fileName,
       originalFileName |-> file.originalFileName,
       fileData |-> storedData,
       size |-> file.size,
       checksum |-> sourceHashBefore,
       sourceChecksumBeforeMigration |-> sourceHashBefore,
       contentType |-> file.contentType,
       uploadDate |-> file.uploadDate,
       lastMigrationDate |-> now,
       migrationStatus |-> "VERIFYING",
       isLocked |-> TRUE,
       retryAttempts |-> 0])

TargetDocument(file, sourceHashBefore, storedData) ==
    NewDocument(
      [logicalObject |-> file.logicalObject,
       fileName |-> file.fileName,
       originalFileName |-> file.originalFileName,
       fileData |-> storedData,
       size |-> file.size,
       checksum |-> sourceHashBefore,
       sourceChecksumBeforeMigration |-> sourceHashBefore,
       contentType |-> file.contentType,
       lastAccessDate |-> file.lastAccessDate,
       uploadDate |-> file.uploadDate,
       lastMigrationDate |-> now,
       migrationStatus |-> "VERIFYING",
       isLocked |-> TRUE,
       retryAttempts |-> 0])

\* Step 4: newFileDoc.save().  The write path either stores the bytes or
\* garbles them (the fault step 5 exists to catch).
SaveStep(p) ==
    LET f == mig[p]
        file == f.fileInfo[1]
    IN
    /\ f.pc = "save"
    /\ nextId <= bound.ids
    /\ \E garbled \in {b \in BOOLEAN : b => FaultAllowed} :
         /\ collections' =
              insertDocument(collections, f.targetTier, nextId,
                 TargetDocument(file, f.sourceHashBefore,
                    IF garbled THEN toBase64(Garbled) ELSE file.fileData))
         /\ faults' = IF garbled THEN [faults EXCEPT !.garbled = @ + 1]
                       ELSE faults
    /\ nextId' = nextId + 1
    /\ mig' = [mig EXCEPT ![p].newFileDoc = nextId, ![p].pc = "reload"]
    /\ UNCHANGED <<now, totalMigrations, filesToMigrate, recovery, uploads,
                   crashes, bound, api, log>>

\* a variant of steps 5 and 6 that goes on to the commit whatever the hash
\* of the target is
ReloadStepUnchecked(p) ==
    LET f == mig[p] IN
    /\ f.pc = "reload"
    /\ Exists(collections, f.targetTier, f.newFileDoc)
    /\ mig' = [mig EXCEPT
         ![p].targetHashAfter =
            verifyFileIntegrity(collections[f.targetTier][f.newFileDoc]),
         ![p].pc = "commit"]
    /\ UNCHANGED <<collections, nextId, now, totalMigrations, filesToMigrate,
                   recovery, uploads, crashes, faults, bound, api, log>>

\* Steps 5 and 6: reload the target and compare the hashes.  A target that
\* is gone makes verifyFileIntegrity(null) throw.
ReloadStep(p) ==
    LET f == mig[p] IN
    /\ f.pc = "reload"
    /\ IF ~Exists(collections, f.targetTier, f.newFileDoc)
       THEN mig' = [mig EXCEPT ![p].error = "TypeError",
                               ![p].pc = CatchEntry(f.newFileDoc)]
       ELSE LET targetHashAfter ==
                  verifyFileIntegrity(collections[f.targetTier][f.newFileDoc])
            IN IF f.sourceHashBefore # targetHashAfter
               THEN mig' = [mig EXCEPT ![p].targetHashAfter = targetHashAfter,
                                       ![p].error = "IntegrityError",
                                       ![p].pc = "rollbackDelete"]
               ELSE mig' = [mig EXCEPT ![p].targetHashAfter = targetHashAfter,
                                       ![p].pc = "commit"]
    /\ UNCHANGED <<collections, nextId, now, totalMigrations, filesToMigrate,
                   recovery, uploads, crashes, faults, bound, api, log>>

\* Step 6's rollback: delete the target
RollbackDeleteStep(p) ==
    LET f == mig[p] IN
    /\ f.pc = "rollbackDelete"
    /\ collections' = findByIdAndDelete(collections, f.targetTier, f.newFileDoc)
    /\ mig' = [mig EXCEPT ![p].pc = "markFailed"]
    /\ UNCHANGED <<nextId, now, totalMigrations, filesToMigrate, recovery,
                   uploads, crashes, faults, bound, api, log>>

\* Step 7: commit the target
CommitStep(p) ==
    LET f == mig[p] IN
    /\ f.pc = "commit"
    /\ collections' =
         findByIdAndUpdate(collections, f.targetTier, f.newFileDoc,
            [migrationStatus |-> "IDLE", isLocked |-> FALSE,
             sourceChecksumBeforeMigration |-> f.sourceHashBefore,
             targetChecksumAfterMigration |-> f.targetHashAfter])
    /\ mig' = [mig EXCEPT ![p].pc = "noteTargetChecksum"]
    /\ UNCHANGED <<nextId, now, totalMigrations, filesToMigrate, recovery,
                   uploads, crashes, faults, bound, api, log>>

\* Step 7: the target checksum is written to the source before its deletion
NoteTargetChecksumStep(p) ==
    LET f == mig[p] IN
    /\ f.pc = "noteTargetChecksum"
    /\ collections' =
         findByIdAndUpdate(collections, f.currentTier, f.fileId,
            [targetChecksumAfterMigration |-> f.targetHashAfter])
    /\ mig' = [mig EXCEPT ![p].pc = "deleteSource"]
    /\ UNCHANGED <<nextId, now, totalMigrations, filesToMigrate, recovery,
                   uploads, crashes, faults, bound, api, log>>

\* a variant of step 7 that leaves the source where it is
DeleteSourceStepKept(p) ==
    /\ mig[p].pc = "deleteSource"
    /\ mig' = [mig EXCEPT ![p].pc = "increment"]
    /\ UNCHANGED <<collections, nextId, now, totalMigrations, filesToMigrate,
                   recovery, uploads, crashes, faults, bound, api, log>>

\* Step 7: delete the source
DeleteSourceStep(p) ==
    LET f == mig[p] IN
    /\ f.pc = "deleteSource"
    /\ collections' = findByIdAndDelete(collections, f.currentTier, f.fileId)
    /\ mig' = [mig EXCEPT ![p].pc = "increment"]
    /\ UNCHANGED <<nextId, now, totalMigrations, filesToMigrate, recovery,
                   uploads, crashes, faults, bound, api, log>>

\* MigrationStats.js: $inc of the global counter
incrementMigrationCount(count) == count + 1

IncrementStep(p) ==
    /\ mig[p].pc = "increment"
    /\ totalMigrations' = incrementMigrationCount(totalMigrations)
    /\ mig' = [mig EXCEPT ![p].pc = "final"]
    /\ UNCHANGED <<collections, nextId, now, filesToMigrate, recovery, uploads, crashes, faults, bound, api, log>>

\* the final reload and the return
FinalStep(p) ==
    /\ mig[p].pc = "final"
    /\ mig' = [mig EXCEPT ![p].pc = "returned"]
    /\ UNCHANGED <<collections, nextId, now, totalMigrations, filesToMigrate,
                   recovery, uploads, crashes, faults, bound, api, log>>

\* the database operations of the try block after the lock; any of them
\* may reject (a backend failure), which throws into the catch block
FallibleSteps ==
    {"setVerifying", "save", "reload", "commit", "noteTargetChecksum",
     "deleteSource", "increment", "final"}

\* new targetModel(...) has given newFileDoc its _id before save() rejects
BackendThrows(p) ==
    LET f == mig[p]
        newFileDoc == IF f.pc = "save" THEN UnsavedId ELSE f.newFileDoc
    IN
    /\ f.pc \in FallibleSteps
    /\ FaultAllowed
    /\ faults' = [faults EXCEPT !.rejected = @ + 1]
    /\ mig' = [mig EXCEPT ![p].newFileDoc = newFileDoc,
                          ![p].error = "BackendError",
                          ![p].pc = CatchEntry(newFileDoc)]
    /\ UNCHANGED <<collections, nextId, now, totalMigrations, filesToMigrate,
                   recovery, uploads, crashes, bound, api, log>>

\* catch: delete the target the call created
CleanupStep(p) ==
    LET f == mig[p] IN
    /\ f.pc = "cleanup"
    /\ collections' = findByIdAndDelete(collections, f.targetTier, f.newFileDoc)
    /\ mig' = [mig EXCEPT ![p].pc = "handle"]
    /\ UNCHANGED <<nextId, now, totalMigrations, filesToMigrate, recovery,
                   uploads, crashes, faults, bound, api, log>>

\* catch: file.retryAttempts += 1 on the document lockFile returned, then
\* FAILED or IDLE
HandleStep(p) ==
    LET f == mig[p]
        file == f.fileInfo[1]
        retryAttempts == file.retryAttempts + 1
    IN
    /\ f.pc = "handle"
    /\ IF retryAttempts >= MAX_RETRY_ATTEMPTS
       THEN /\ collections' =
                 findByIdAndUpdate(collections, f.currentTier, f.fileId,
                    [migrationStatus |-> "FAILED", isLocked |-> FALSE])
            /\ mig' = [mig EXCEPT
                 ![p].fileInfo = <<[file EXCEPT !.retryAttempts = retryAttempts]>>,
                 ![p].error = "MaxRetriesExceeded",
                 ![p].pc = "threw"]
       ELSE /\ collections' =
                 unlockFile(collections, f.fileId, f.currentTier, "IDLE")
            /\ mig' = [mig EXCEPT
                 ![p].fileInfo = <<[file EXCEPT !.retryAttempts = retryAttempts]>>,
                 ![p].pc = "threw"]
    /\ UNCHANGED <<nextId, now, totalMigrations, filesToMigrate, recovery,
                   uploads, crashes, faults, bound, api, log>>

migrateFile(p) ==
    \/ LockStep(p)
    \/ SetVerifyingStep(p)
    \/ MarkFailedStep(p)
    \/ SaveStep(p)
    \/ ReloadStep(p)
    \/ RollbackDeleteStep(p)
    \/ CommitStep(p)
    \/ NoteTargetChecksumStep(p)
    \/ DeleteSourceStep(p)
    \/ IncrementStep(p)
    \/ FinalStep(p)
    \/ BackendThrows(p)
    \/ CleanupStep(p)
    \/ HandleStep(p)

----------------------------------------------------------------------------
(* migrationJob.js: the 'migrate files' job *)

\* the job starts: scan for candidates and call migrateFile on the first
SweepScan ==
    LET found == getFilesForMigration(collections, now) IN
    /\ mig["sweep"].pc = "idle"
    /\ filesToMigrate = <<>>
    /\ found # <<>>
    /\ filesToMigrate' = found
    /\ mig' = [mig EXCEPT !["sweep"] =
                 CallFrame(found[1].id, found[1].currentTier,
                           found[1].targetTier)]
    /\ UNCHANGED <<collections, nextId, now, totalMigrations, recovery,
                   uploads, crashes, faults, bound, api, log>>

\* a loop without the inner try/catch: a throw of migrateFile ends the job
SweepNextStopping ==
    LET rest == IF mig["sweep"].pc = "threw" THEN <<>>
                ELSE Tail(filesToMigrate) IN
    /\ mig["sweep"].pc \in {"returned", "threw"}
    /\ filesToMigrate' = rest
    /\ mig' = [mig EXCEPT !["sweep"] =
                 IF rest = <<>> THEN IdleFrame
                 ELSE CallFrame(rest[1].id, rest[1].currentTier,
                                rest[1].targetTier)]
    /\ UNCHANGED <<collections, nextId, now, totalMigrations, recovery,
                   uploads, crashes, faults, bound, api, log>>

\* migrateFile returned or threw (the loop catches it): go on with the next
\* candidate, or end the job
SweepNext ==
    LET rest == Tail(filesToMigrate) IN
    /\ mig["sweep"].pc \in {"returned", "threw"}
    /\ filesToMigrate' = rest
    /\ mig' = [mig EXCEPT !["sweep"] =
                 IF rest = <<>> THEN IdleFrame
                 ELSE CallFrame(rest[1].id, rest[1].currentTier,
                                rest[1].targetTier)]
    /\ UNCHANGED <<collections, nextId, now, totalMigrations, recovery,
                   uploads, crashes, faults, bound, api, log>>

----------------------------------------------------------------------------
(* routes/files.js: POST /:id/migrate *)

\* the tiers that hold a document with this id, in the order of the search
findFileAcrossTiers(colls, fileId) ==
    SelectSeq(tierNames, LAMBDA t : Exists(colls, t, fileId))

\* the request finds the file unlocked and in the wrong tier, and calls
\* migrateFile (the other outcomes answer at once and change nothing)
ManualRequest ==
    \E fileId \in UNION {DOMAIN collections[t] : t \in Tiers} :
      LET result == findFileAcrossTiers(collections, fileId)
          tier == result[1]
          file == collections[tier][fileId]
          decision == shouldMigrate(file, tier, now)
      IN
      /\ mig["manual"].pc = "idle"
      /\ result # <<>>
      /\ ~file.isLocked
      /\ decision.shouldMigrate
      /\ mig' = [mig EXCEPT !["manual"] =
                   CallFrame(fileId, tier, decision.targetTier)]
      /\ UNCHANGED <<collections, nextId, now, totalMigrations,
                     filesToMigrate, recovery, uploads, crashes, faults, bound, api, log>>

\* the response is sent
ManualRespond ==
    /\ mig["manual"].pc \in {"returned", "threw"}
    /\ mig' = [mig EXCEPT !["manual"] = IdleFrame]
    /\ UNCHANGED <<collections, nextId, now, totalMigrations, filesToMigrate,
                   recovery, uploads, crashes, faults, bound, api, log>>

----------------------------------------------------------------------------
(* routes/files.js: POST /upload *)

Upload ==
    \E fileName \in FileNames, buffer \in Buffers :
      /\ nextId <= bound.ids
      /\ uploads < bound.uploads
      /\ uploads' = uploads + 1
      /\ collections' =
           insertDocument(collections, "HOT", nextId,
             NewDocument(
               [logicalObject |-> nextId,
                fileName |-> fileName,
                originalFileName |-> fileName,
                fileData |-> toBase64(buffer),
                size |-> 2,
                checksum |-> calculateBufferHash(buffer),
                contentType |-> "text/plain",
                lastAccessDate |-> now,
                uploadDate |-> now]))
      /\ nextId' = nextId + 1
      /\ UNCHANGED <<now, totalMigrations, mig, filesToMigrate, recovery,
                     crashes, faults, bound, api, log>>

----------------------------------------------------------------------------
(* routes/files.js: DELETE /:id and GET /:id/download *)

\* DELETE: the request finds the file and tests the lock on the document it
\* found; a locked file is answered with 409
DeleteRequest ==
    \E fileId \in UNION {DOMAIN collections[t] : t \in Tiers} :
      LET result == findFileAcrossTiers(collections, fileId)
          tier == result[1]
          file == collections[tier][fileId]
      IN
      /\ api.pc = "idle"
      /\ result # <<>>
      /\ api' = [api EXCEPT !.pc = IF file.isLocked THEN "conflict"
                                   ELSE "delete",
                            !.fileId = fileId, !.tier = tier,
                            !.file = <<file>>]
      /\ UNCHANGED <<collections, nextId, now, totalMigrations, mig,
                     filesToMigrate, recovery, uploads, crashes, faults, bound, log>>

\* DELETE: model.findByIdAndDelete(req.params.id), then the answer
DeleteExecute ==
    /\ api.pc = "delete"
    /\ collections' = findByIdAndDelete(collections, api.tier, api.fileId)
    /\ api' = [api EXCEPT !.pc = "sent",
                          !.deleted = @ \cup {api.file[1].logicalObject}]
    /\ UNCHANGED <<nextId, now, totalMigrations, mig, filesToMigrate,
                   recovery, uploads, crashes, faults, bound, log>>

\* download: the request finds the tier that holds the file
DownloadRequest ==
    \E fileId \in UNION {DOMAIN collections[t] : t \in Tiers} :
      LET result == findFileAcrossTiers(collections, fileId) IN
      /\ api.pc = "idle"
      /\ result # <<>>
      /\ api' = [api EXCEPT !.pc = "load", !.fileId = fileId,
                            !.tier = result[1]]
      /\ UNCHANGED <<collections, nextId, now, totalMigrations, mig,
                     filesToMigrate, recovery, uploads, crashes, faults, bound, log>>

\* download: model.findById(...).select('+fileData') and the test of the
\* lock; a file that is gone makes file.isLocked throw
DownloadLoad ==
    /\ api.pc = "load"
    /\ api' =
         IF ~Exists(collections, api.tier, api.fileId)
         THEN [api EXCEPT !.pc = "error"]
         ELSE IF collections[api.tier][api.fileId].isLocked
         THEN [api EXCEPT !.pc = "conflict",
                          !.file = <<collections[api.tier][api.fileId]>>]
         ELSE [api EXCEPT !.pc = "save",
                          !.file = <<collections[api.tier][api.fileId]>>]
    /\ UNCHANGED <<collections, nextId, now, totalMigrations, mig,
                   filesToMigrate, recovery, uploads, crashes, faults, bound, log>>

\* download: file.lastAccessDate = new Date(); file.save() writes the one
\* modified path, and rejects when the document is gone
DownloadSave ==
    /\ api.pc = "save"
    /\ collections' =
         findByIdAndUpdate(collections, api.tier, api.fileId,
                           [lastAccessDate |-> now])
    /\ api' = [api EXCEPT !.pc = IF Exists(collections, api.tier, api.fileId)
                                   THEN "sent" ELSE "error"]
    /\ UNCHANGED <<nextId, now, totalMigrations, mig, filesToMigrate,
                   recovery, uploads, crashes, faults, bound, log>>

\* the response is sent
ApiRespond ==
    /\ api.pc \in {"conflict", "sent", "error"}
    /\ api' = [IdleApi EXCEPT !.deleted = api.deleted]
    /\ UNCHANGED <<collections, nextId, now, totalMigrations, mig,
                   filesToMigrate, recovery, uploads, crashes, faults, bound, log>>

----------------------------------------------------------------------------
(* utils/logBuffer.js and GET /api/logs *)

\* entries.push(entry), then the splice that drops the oldest entries
push(entries, entry) ==
    LET appended == Append(entries, entry) IN
    IF Len(appended) > MAX_ENTRIES
    THEN SubSeq(appended, Len(appended) - MAX_ENTRIES + 1, Len(appended))
    ELSE appended

\* a variant that returns the module's array itself
getLogsShared(entries) == [array |-> entries, shared |-> TRUE]

\* [...entries]: a new array with the same entry objects
getLogs(entries) == [array |-> entries, shared |-> FALSE]

\* the entries of the array that are still written over
StillWritten(entries, written) ==
    {e \in written : \E k \in 1..Len(entries) : entries[k] = e}

\* console.log, console.error or console.warn is called
LogPush ==
    LET entries == push(log.entries, log.pushed + 1) IN
    /\ log.pushed < MaxPushes
    /\ log.held => log.since < MaxHeldPushes
    /\ log' = [log EXCEPT
                 !.entries = entries,
                 !.pushed = log.pushed + 1,
                 !.written = StillWritten(entries, log.written),
                 !.result = IF log.shared THEN entries ELSE log.result,
                 !.since = IF log.held THEN log.since + 1 ELSE 0]
    /\ UNCHANGED <<collections, nextId, now, totalMigrations, mig,
                   filesToMigrate, recovery, uploads, crashes, faults, bound,
                   api>>

\* GET /api/logs: const logs = getLogs()
LogRead ==
    LET logs == getLogs(log.entries) IN
    /\ ~log.held
    /\ log' = [log EXCEPT !.held = TRUE, !.result = logs.array,
                          !.shared = logs.shared, !.since = 0,
                          !.mutated = FALSE]
    /\ UNCHANGED <<collections, nextId, now, totalMigrations, mig,
                   filesToMigrate, recovery, uploads, crashes, faults, bound,
                   api>>

\* what a caller can do to the array it got: shift(), push(x) with an
\* entry of its own (ordinal 0), or length = 0
Mutations(array) ==
    {Append(array, 0), <<>>}
       \cup (IF array = <<>> THEN {} ELSE {Tail(array)})

\* the caller mutates the array it got
ResultMutate ==
    \E array \in Mutations(log.result) :
      /\ log.held
      /\ ~log.mutated
      /\ array # log.result
      /\ log' = [log EXCEPT
                   !.result = array,
                   !.mutated = TRUE,
                   !.entries = IF log.shared THEN array ELSE log.entries]
      /\ UNCHANGED <<collections, nextId, now, totalMigrations, mig,
                     filesToMigrate, recovery, uploads, crashes, faults,
                     bound, api>>

\* the caller writes a field of the first entry of the array it got: the
\* entry object is the one the buffer holds
ResultWrite ==
    /\ log.held
    /\ log.result # <<>>
    /\ log.result[1] \notin log.written
    /\ log' = [log EXCEPT
                 !.written = StillWritten(log.entries,
                                          log.written \cup {log.result[1]})]
    /\ UNCHANGED <<collections, nextId, now, totalMigrations, mig,
                   filesToMigrate, recovery, uploads, crashes, faults, bound,
                   api>>

\* res.json({ logs }): the caller is done with the array
LogRespond ==
    /\ log.held
    /\ log' = [log EXCEPT !.held = FALSE, !.result = <<>>,
                          !.shared = FALSE, !.since = 0, !.mutated = FALSE]
    /\ UNCHANGED <<collections, nextId, now, totalMigrations, mig,
                   filesToMigrate, recovery, uploads, crashes, faults, bound,
                   api>>

----------------------------------------------------------------------------
(* migrationService.js: recoverStuckMigrations, one database operation per
   step *)

\* sourceModel.find({migrationStatus: {$in: [...]}, isLocked: true})
\* a variant of the query that asks for PROCESSING only
StuckFilesProcessing(colls, tier) ==
    LET ids == {id \in DOMAIN colls[tier] :
                  /\ colls[tier][id].migrationStatus = "PROCESSING"
                  /\ colls[tier][id].isLocked = TRUE}
        order == SortedIds(ids)
    IN [k \in 1..Len(order) |-> [id |-> order[k], doc |-> colls[tier][order[k]]]]

StuckFiles(colls, tier) ==
    LET ids == {id \in DOMAIN colls[tier] :
                  /\ colls[tier][id].migrationStatus
                       \in {"PROCESSING", "VERIFYING"}
                  /\ colls[tier][id].isLocked = TRUE}
        order == SortedIds(ids)
    IN [k \in 1..Len(order) |-> [id |-> order[k], doc |-> colls[tier][order[k]]]]

\* a variant of the filter that does not accept a duplicate that is IDLE
DuplicateMatchInTransit(file, candidate, clock) ==
    /\ candidate.fileName = file.fileName
    /\ candidate.createdAt >= clock - TenMinutes
    /\ candidate.migrationStatus \in {"PROCESSING", "VERIFYING"}

\* the filter of targetModel.findOne in the search for a duplicate
DuplicateMatch(file, candidate, clock) ==
    /\ candidate.fileName = file.fileName
    /\ \/ candidate.checksum = file.checksum
       \/ candidate.checksum = Get(file, "sourceChecksumBeforeMigration")
       \/ Get(candidate, "sourceChecksumBeforeMigration")
            = Get(file, "sourceChecksumBeforeMigration")
    /\ candidate.createdAt >= clock - TenMinutes
    /\ candidate.migrationStatus \in {"PROCESSING", "VERIFYING", "IDLE"}

\* a variant of the j loop that searches the source's own tier too
NextAny(i, j) == j + 1

\* the j loop skips the source's own tier
NextOther(i, j) ==
    IF j + 1 = i THEN j + 2 ELSE j + 1

\* what is done first for a stuck file
FirstStep(file) ==
    IF file.migrationStatus = "VERIFYING" THEN "search" ELSE "reset"

\* the frame once the current stuck file is done
AfterFile(r) ==
    LET rest == IF r.stuckFiles = <<>> THEN <<>> ELSE Tail(r.stuckFiles) IN
    IF rest # <<>>
    THEN [r EXCEPT !.stuckFiles = rest, !.pc = FirstStep(rest[1].doc),
                   !.j = NextOther(r.i, 0), !.duplicate = <<>>]
    ELSE IF r.i < Len(tierNames)
    THEN [IdleRecovery EXCEPT !.pc = "find", !.i = r.i + 1]
    ELSE IdleRecovery

\* the 'recover stuck migrations' job starts
RecoveryStart ==
    /\ recovery.pc = "idle"
    /\ recovery' = [IdleRecovery EXCEPT !.pc = "find"]
    /\ UNCHANGED <<collections, nextId, now, totalMigrations, mig,
                   filesToMigrate, uploads, crashes, faults, bound, api, log>>

RecoveryFind ==
    LET stuck == StuckFiles(collections, tierNames[recovery.i]) IN
    /\ recovery.pc = "find"
    /\ recovery' =
         IF stuck # <<>>
         THEN [recovery EXCEPT !.stuckFiles = stuck,
                               !.pc = FirstStep(stuck[1].doc),
                               !.j = NextOther(recovery.i, 0)]
         ELSE AfterFile(recovery)
    /\ UNCHANGED <<collections, nextId, now, totalMigrations, mig,
                   filesToMigrate, uploads, crashes, faults, bound, api, log>>

\* targetModel.findOne(...) in tier j
RecoverySearch ==
    LET file == recovery.stuckFiles[1].doc
        targetTier == tierNames[recovery.j]
        matches == {id \in DOMAIN collections[targetTier] :
                      DuplicateMatch(file, collections[targetTier][id], now)}
        found == CHOOSE id \in matches : \A other \in matches : id <= other
        next == NextOther(recovery.i, recovery.j)
    IN
    /\ recovery.pc = "search"
    /\ recovery' =
         IF matches # {}
         THEN [recovery EXCEPT
                 !.duplicate =
                    <<[id |-> found, tier |-> targetTier,
                       doc |-> collections[targetTier][found]]>>,
                 !.pc = "deleteSource"]
         ELSE IF next <= Len(tierNames)
         THEN [recovery EXCEPT !.j = next]
         ELSE [recovery EXCEPT !.pc = "reset"]
    /\ UNCHANGED <<collections, nextId, now, totalMigrations, mig,
                   filesToMigrate, uploads, crashes, faults, bound, api, log>>

\* a duplicate was found: sourceModel.findByIdAndDelete(file._id)
RecoveryDeleteSource ==
    /\ recovery.pc = "deleteSource"
    /\ collections' =
         findByIdAndDelete(collections, tierNames[recovery.i],
                           recovery.stuckFiles[1].id)
    /\ recovery' = [recovery EXCEPT !.pc = "increment"]
    /\ UNCHANGED <<nextId, now, totalMigrations, mig, filesToMigrate, uploads, crashes, faults, bound, api, log>>

RecoveryIncrement ==
    LET duplicate == recovery.duplicate[1].doc IN
    /\ recovery.pc = "increment"
    /\ totalMigrations' = incrementMigrationCount(totalMigrations)
    /\ recovery' =
         IF duplicate.isLocked \/ duplicate.migrationStatus # "IDLE"
         THEN [recovery EXCEPT !.pc = "unlockTarget"]
         ELSE AfterFile(recovery)
    /\ UNCHANGED <<collections, nextId, now, mig, filesToMigrate, uploads, crashes, faults, bound, api, log>>

\* the duplicate is forced to IDLE
RecoveryUnlockTarget ==
    /\ recovery.pc = "unlockTarget"
    /\ collections' =
         findByIdAndUpdate(collections, recovery.duplicate[1].tier,
                           recovery.duplicate[1].id,
                           [migrationStatus |-> "IDLE", isLocked |-> FALSE])
    /\ recovery' = AfterFile(recovery)
    /\ UNCHANGED <<nextId, now, totalMigrations, mig, filesToMigrate, uploads, crashes, faults, bound, api, log>>

\* a variant of the reset that goes on without saving the file
RecoveryResetSkipped ==
    /\ recovery.pc = "reset"
    /\ recovery' = AfterFile(recovery)
    /\ UNCHANGED <<collections, nextId, now, totalMigrations, mig,
                   filesToMigrate, uploads, crashes, faults, bound, api, log>>

\* a variant of the reset that unlocks the file and leaves its status
RecoveryResetUnlockOnly ==
    LET tier == tierNames[recovery.i]
        id == recovery.stuckFiles[1].id
    IN
    /\ recovery.pc = "reset"
    /\ IF Exists(collections, tier, id)
       THEN /\ collections' =
                 findByIdAndUpdate(collections, tier, id, [isLocked |-> FALSE])
            /\ recovery' = AfterFile(recovery)
       ELSE /\ collections' = collections
            /\ recovery' = IdleRecovery
    /\ UNCHANGED <<nextId, now, totalMigrations, mig, filesToMigrate, uploads, crashes, faults, bound, api, log>>

\* no duplicate, or a file in PROCESSING: file.save() with the two modified
\* paths; a document that is gone makes save() reject, which ends the run
\* in the job's catch block
RecoveryReset ==
    LET tier == tierNames[recovery.i]
        id == recovery.stuckFiles[1].id
    IN
    /\ recovery.pc = "reset"
    /\ IF Exists(collections, tier, id)
       THEN /\ collections' =
                 findByIdAndUpdate(collections, tier, id,
                    [migrationStatus |-> "IDLE", isLocked |-> FALSE])
            /\ recovery' = AfterFile(recovery)
       ELSE /\ collections' = collections
            /\ recovery' = IdleRecovery
    /\ UNCHANGED <<nextId, now, totalMigrations, mig, filesToMigrate, uploads, crashes, faults, bound, api, log>>

recoverStuckMigrations ==
    \/ RecoveryFind
    \/ RecoverySearch
    \/ RecoveryDeleteSource
    \/ RecoveryIncrement
    \/ RecoveryUnlockTarget
    \/ RecoveryReset

----------------------------------------------------------------------------
(* Environment *)

\* the Node process dies: every call in flight is abandoned where it stands
Crash ==
    /\ crashes < bound.crashes
    /\ \/ \E p \in Procs : mig[p].pc # "idle"
       \/ recovery.pc # "idle"
    /\ crashes' = crashes + 1
    /\ mig' = [p \in Procs |-> IdleFrame]
    /\ filesToMigrate' = <<>>
    /\ recovery' = IdleRecovery
    /\ api' = [IdleApi EXCEPT !.deleted = api.deleted]
    /\ log' = IdleLog
    /\ UNCHANGED <<collections, nextId, now, totalMigrations, uploads, faults, bound>>

\* time passes
Tick ==
    /\ now < bound.ticks * TickLength
    /\ now' = now + TickLength
    /\ UNCHANGED <<collections, nextId, totalMigrations, mig, filesToMigrate,
                   recovery, uploads, crashes, faults, bound, api, log>>

----------------------------------------------------------------------------
(* Specifications *)

Next ==
    \/ \E p \in Procs : migrateFile(p)
    \/ SweepScan
    \/ SweepNext
    \/ ManualRequest
    \/ ManualRespond
    \/ Upload
    \/ RecoveryStart
    \/ recoverStuckMigrations
    \/ Crash
    \/ Tick

Spec == Init /\ [][Next]_vars

\* Calls that do not overlap: a caller starts only when no call is in
\* flight, and the process does not crash (so that the recovery job finds
\* nothing to do and is left out).
Quiet == \A p \in Procs : mig[p].pc = "idle"

InitSeq ==
    /\ collections \in {c \in InitialCollections : Misplaced(c)}
    /\ nextId = 2
    /\ now = 0
    /\ totalMigrations = 0
    /\ mig = [p \in Procs |-> IdleFrame]
    /\ filesToMigrate = <<>>
    /\ recovery = IdleRecovery
    /\ uploads = 0
    /\ crashes = 0
    /\ faults = NoFaults
    /\ api = IdleApi
    /\ log = IdleLog
    /\ bound = [ids |-> SeqMaxIds, uploads |-> MaxUploads, ticks |-> 0,
                crashes |-> 0, faults |-> SeqMaxFaults]

NextSeq ==
    \/ \E p \in Procs : migrateFile(p)
    \/ (Quiet /\ SweepScan)
    \/ SweepNext
    \/ (Quiet /\ ManualRequest)
    \/ ManualRespond
    \/ Upload

SpecSeq == InitSeq /\ [][NextSeq]_vars

\* Migrations, crashes and runs of the recovery job that do not overlap: a
\* call or a recovery run starts only when nothing else is running.
Calm == Quiet /\ recovery.pc = "idle"

NextRecover ==
    \/ \E p \in Procs : migrateFile(p)
    \/ (Calm /\ SweepScan)
    \/ SweepNext
    \/ (Calm /\ ManualRequest)
    \/ ManualRespond
    \/ Upload
    \/ (Calm /\ RecoveryStart)
    \/ recoverStuckMigrations
    \/ Crash
    \/ Tick

SpecRecover == Init /\ [][NextRecover]_vars

\* The migration job and the recovery job as Agenda runs them, each on its
\* own schedule and so interleaved, with crashes and the clock; the
\* recovery job is scheduled again and again (agenda.every('1 minute')) and
\* every await of a run completes.
NextJobs ==
    \/ migrateFile("sweep")
    \/ SweepScan
    \/ SweepNext
    \/ RecoveryStart
    \/ recoverStuckMigrations
    \/ Crash
    \/ Tick

SpecJobsFair ==
    /\ Init
    /\ [][NextJobs]_vars
    /\ WF_vars(RecoveryStart)
    /\ WF_vars(recoverStuckMigrations)

\* The decision engine alone.  One idle file of any age up to DecideMaxDays
\* days (to the day, or a minute over), or without a last access date, in
\* any tier; and a second file, last accessed 45 days ago, in any tier and
\* in any state a migration that ended, failed or was abandoned leaves a
\* record in.  The job scans, a manual request asks, the clock goes on.
DecideDates ==
    {0 - (d * DayLength + m) : d \in 0..DecideMaxDays, m \in {0, 1}}
       \cup {NoDate}

SecondFileStates ==
    {<<"IDLE", FALSE>>, <<"FAILED", FALSE>>, <<"PROCESSING", TRUE>>,
     <<"VERIFYING", TRUE>>, <<"VERIFYING", FALSE>>}

SecondFile(state) ==
    [InitialFile(0 - 45 * DayLength, 0 - 45 * DayLength) EXCEPT
        !.logicalObject = 2, !.migrationStatus = state[1],
        !.isLocked = state[2]]

InitDecide ==
    /\ collections \in
          {[t \in Tiers |->
              (IF t = tier
               THEN (1 :> InitialFile(lastAccess,
                             IF lastAccess = NoDate THEN 0 ELSE lastAccess))
               ELSE EmptyCollection)
              @@
              (IF t = secondTier THEN (2 :> SecondFile(state))
               ELSE EmptyCollection)] :
           tier \in Tiers, lastAccess \in DecideDates,
           secondTier \in Tiers, state \in SecondFileStates}
    /\ nextId = 3
    /\ now = 0
    /\ totalMigrations = 0
    /\ mig = [p \in Procs |-> IdleFrame]
    /\ filesToMigrate = <<>>
    /\ recovery = IdleRecovery
    /\ uploads = 0
    /\ crashes = 0
    /\ faults = NoFaults
    /\ api = IdleApi
    /\ log = IdleLog
    /\ bound = [ids |-> MaxIds, uploads |-> 0, ticks |-> MaxTicks,
                crashes |-> 0, faults |-> 0]

NextDecide ==
    \/ SweepScan
    \/ ManualRequest
    \/ Tick

SpecDecide == InitDecide /\ [][NextDecide]_vars

\* The job and the manual route side by side, their calls overlapping,
\* without uploads, crashes or the recovery job.
NextCalls ==
    \/ \E p \in Procs : migrateFile(p)
    \/ SweepScan
    \/ SweepNext
    \/ ManualRequest
    \/ ManualRespond
    \/ Tick

SpecCalls == Init /\ [][NextCalls]_vars

\* The job and a user's download and delete requests side by side.
NextApi ==
    \/ migrateFile("sweep")
    \/ SweepScan
    \/ SweepNext
    \/ DeleteRequest
    \/ DeleteExecute
    \/ DownloadRequest
    \/ DownloadLoad
    \/ DownloadSave
    \/ ApiRespond

SpecApi == Init /\ [][NextApi]_vars

\* Calls that do not overlap, on a file whose stored bytes are intact or
\* were corrupted at rest, and whose checksum is set or missing.
StoredCollections ==
    {[t \in Tiers |->
        IF t = tier
        THEN (1 :> [InitialFile(lastAccess, created) EXCEPT
                       !.fileData = toBase64(buffer), !.checksum = checksum])
        ELSE EmptyCollection] :
     tier \in Tiers, lastAccess \in InitialAccess, created \in InitialCreated,
     buffer \in {"b1", Garbled},
     checksum \in {calculateBufferHash("b1"), Null}}

InitStored ==
    /\ collections \in {c \in StoredCollections : Misplaced(c)}
    /\ nextId = 2
    /\ now = 0
    /\ totalMigrations = 0
    /\ mig = [p \in Procs |-> IdleFrame]
    /\ filesToMigrate = <<>>
    /\ recovery = IdleRecovery
    /\ uploads = 0
    /\ crashes = 0
    /\ faults = NoFaults
    /\ api = IdleApi
    /\ log = IdleLog
    /\ bound = [ids |-> MaxIds, uploads |-> 0, ticks |-> 0,
                crashes |-> 0, faults |-> MaxFaults]

NextStored ==
    \/ \E p \in Procs : migrateFile(p)
    \/ (Quiet /\ SweepScan)
    \/ SweepNext
    \/ (Quiet /\ ManualRequest)
    \/ ManualRespond

SpecStored == InitStored /\ [][NextStored]_vars

\* The job alone, over two files.  Each was last accessed 45 or 100 days
\* ago and is idle in some tier; at least one is in the wrong tier.
SweepFile(object, lastAccess) ==
    [InitialFile(lastAccess, 0 - 10 * DayLength) EXCEPT
        !.logicalObject = object]

SweepCollections ==
    {[t \in Tiers |->
        (IF t = tier1 THEN (1 :> SweepFile(1, access1)) ELSE EmptyCollection)
        @@
        (IF t = tier2 THEN (2 :> SweepFile(2, access2)) ELSE EmptyCollection)] :
     tier1 \in Tiers, access1 \in InitialAccess,
     tier2 \in Tiers, access2 \in InitialAccess}

InitSweep ==
    /\ collections \in {c \in SweepCollections : Misplaced(c)}
    /\ nextId = 3
    /\ now = 0
    /\ totalMigrations = 0
    /\ mig = [p \in Procs |-> IdleFrame]
    /\ filesToMigrate = <<>>
    /\ recovery = IdleRecovery
    /\ uploads = 0
    /\ crashes = 0
    /\ faults = NoFaults
    /\ api = IdleApi
    /\ log = IdleLog
    /\ bound = [ids |-> SweepMaxIds, uploads |-> 0, ticks |-> 0,
                crashes |-> 0, faults |-> MaxFaults]

NextSweep ==
    \/ migrateFile("sweep")
    \/ SweepScan
    \/ SweepNext

SpecSweep == InitSweep /\ [][NextSweep]_vars

\* The same, with the job scheduled again and again
\* (agenda.every('20 seconds')) and every await of it completing.
SpecSweepFair ==
    /\ SpecSweep
    /\ WF_vars(SweepScan)
    /\ WF_vars(SweepNext)
    /\ WF_vars(migrateFile("sweep"))

\* The log buffer alone, from the start of the server with an empty store:
\* console calls, and GET /api/logs with a caller that may mutate what it
\* got.
InitLog ==
    /\ collections = [t \in Tiers |-> EmptyCollection]
    /\ nextId = 1
    /\ now = 0
    /\ totalMigrations = 0
    /\ mig = [p \in Procs |-> IdleFrame]
    /\ filesToMigrate = <<>>
    /\ recovery = IdleRecovery
    /\ uploads = 0
    /\ crashes = 0
    /\ faults = NoFaults
    /\ api = IdleApi
    /\ log = IdleLog
    /\ bound = [ids |-> 0, uploads |-> 0, ticks |-> 0, crashes |-> 0,
                faults |-> 0]

NextLog ==
    \/ LogPush
    \/ LogRead
    \/ ResultMutate
    \/ ResultWrite
    \/ LogRespond

SpecLog == InitLog /\ [][NextLog]_vars

----------------------------------------------------------------------------
(* The claims *)

\* every record, as <<tier, id>>
Records == {r \in Tiers \X (0..(bound.ids + 1)) : Exists(collections, r[1], r[2])}
RecordAt(r) == collections[r[1]][r[2]]
RecordsOf(object) == {r \in Records : RecordAt(r).logicalObject = object}
\* the call of p has acquired the lock (fileInfo is set)
Acquired(p) == mig[p].fileInfo # <<>>

\* C1: when migrate(O, A, B) returns, O has no record in A, the record the
\* call made in B exists with O's content, status IDLE and unlocked, and it
\* is the only record of O.
C1_SuccessPostcondition ==
    \A p \in Procs :
       mig[p].pc = "returned" =>
          LET f == mig[p]
              file == f.fileInfo[1]
              target == <<f.targetTier, f.newFileDoc>>
          IN /\ ~Exists(collections, f.currentTier, f.fileId)
             /\ target \in Records
             /\ RecordsOf(file.logicalObject) = {target}
             /\ RecordAt(target).fileData = file.fileData
             /\ RecordAt(target).migrationStatus = "IDLE"
             /\ ~RecordAt(target).isLocked

\* a call has returned, from one tier to another
C1_Witness ==
    \E p \in Procs :
       /\ mig[p].pc = "returned"
       /\ mig[p].currentTier # mig[p].targetTier
       /\ Exists(collections, mig[p].targetTier, mig[p].newFileDoc)

\* C2: two calls of migrate on the same unlocked record never both hold the
\* lock: the second one fails at the lock step.
C2_OneLockHolder ==
    \A p, q \in Procs :
       (/\ p # q
        /\ Acquired(p) /\ Acquired(q)
        /\ mig[p].pc \notin {"returned", "threw"}
        /\ mig[q].pc \notin {"returned", "threw"}
        /\ mig[p].currentTier = mig[q].currentTier)
       => mig[p].fileId # mig[q].fileId

\* C3: a step of migrate that removes the source record is the delete of
\* step 7, taken after the target record was re-read and its recomputed
\* hash equalled the hash of the source.
C3_DeleteOnlyAfterVerify ==
    [][\A p \in Procs :
          (/\ mig'[p] # mig[p]
           /\ Acquired(p)
           /\ Exists(collections, mig[p].currentTier, mig[p].fileId)
           /\ ~Exists(collections', mig[p].currentTier, mig[p].fileId))
          => /\ mig[p].pc = "deleteSource"
             /\ mig[p].targetHashAfter # Null
             /\ mig[p].targetHashAfter = mig[p].sourceHashBefore]_vars

\* the source has just been deleted by a call that verified its copy
C3_Witness ==
    \E p \in Procs :
       /\ mig[p].pc = "increment"
       /\ mig[p].targetHashAfter = mig[p].sourceHashBefore
       /\ ~Exists(collections, mig[p].currentTier, mig[p].fileId)


\* no call and no recovery run is in flight, no record is in a transient
\* status
Steady ==
    /\ Calm
    /\ \A r \in Records :
          RecordAt(r).migrationStatus \notin {"PROCESSING", "VERIFYING"}

\* the content the object of the initial state was stored with
InitialContent == "b1"

\* C4: whatever step the process crashes at and however often the recovery
\* job runs afterwards, some record still holds the object's content.
C4_ObjectNotLost ==
    \E r \in Records : fromBase64(RecordAt(r).fileData) = InitialContent

\* C5: in a steady state no object has two records (in one tier or in two).
C5_OneRecordPerObject ==
    Steady =>
       \A r1, r2 \in Records :
          RecordAt(r1).logicalObject = RecordAt(r2).logicalObject => r1 = r2

\* C6: when migrate throws after it acquired the lock, the source record is
\* still there with its content and checksum, IDLE and unlocked, and the
\* target record the call made is gone.
C6_FailureLeavesSource ==
    \A p \in Procs :
       (/\ mig[p].pc = "threw"
        /\ Acquired(p)
        /\ mig[p].error # "MaxRetriesExceeded")
       => LET f == mig[p]
              file == f.fileInfo[1]
          IN /\ Exists(collections, f.currentTier, f.fileId)
             /\ collections[f.currentTier][f.fileId].fileData = file.fileData
             /\ collections[f.currentTier][f.fileId].checksum = file.checksum
             /\ collections[f.currentTier][f.fileId].migrationStatus = "IDLE"
             /\ ~collections[f.currentTier][f.fileId].isLocked
             /\ ~Exists(collections, f.targetTier, f.newFileDoc)

\* the calls so far were three, on the one object there is, and the copy of
\* each was garbled
ThreeIntegrityFailures ==
    /\ uploads = 0
    /\ nextId = 2 + MAX_RETRY_ATTEMPTS
    /\ faults = [garbled |-> MAX_RETRY_ATTEMPTS, rejected |-> 0]

\* C7: when the third attempt in a row has failed its integrity check, the
\* record is FAILED and unlocked.
C7_FailedAfterThreeAttempts ==
    \A p \in Procs :
       (/\ ThreeIntegrityFailures
        /\ mig[p].pc = "threw"
        /\ Acquired(p)
        /\ Exists(collections, mig[p].currentTier, mig[p].fileId))
       => /\ collections[mig[p].currentTier][mig[p].fileId].migrationStatus
               = "FAILED"
          /\ ~collections[mig[p].currentTier][mig[p].fileId].isLocked

\* C8: when migrate has thrown, the stored retryAttempts of the record is
\* one more than it was when the call locked it.
C8_RetryAttemptsIncremented ==
    \A p \in Procs :
       (/\ mig[p].pc = "threw"
        /\ Acquired(p)
        /\ Exists(collections, mig[p].currentTier, mig[p].fileId))
       => collections[mig[p].currentTier][mig[p].fileId].retryAttempts
             = mig[p].fileInfo[1].retryAttempts

\* C9: a record is locked exactly when its status is PROCESSING or
\* VERIFYING.
C9_LockedIffTransient ==
    \A r \in Records :
       RecordAt(r).isLocked
          <=> RecordAt(r).migrationStatus \in {"PROCESSING", "VERIFYING"}

\* C10: the checksum of an IDLE record is the digest of its content.
C10_IdleChecksumMatches ==
    \A r \in Records :
       RecordAt(r).migrationStatus = "IDLE"
          => RecordAt(r).checksum
                = calculateBufferHash(fromBase64(RecordAt(r).fileData))


\* a record the recovery job selects: PROCESSING or VERIFYING, and locked
IsStuck(record) ==
    /\ record.migrationStatus \in {"PROCESSING", "VERIFYING"}
    /\ record.isLocked

\* the committed, verified records of the same object in the other tiers
CommittedCopies(r) ==
    {t \in Records :
        /\ t[1] # r[1]
        /\ RecordAt(t).logicalObject = RecordAt(r).logicalObject
        /\ RecordAt(t).migrationStatus = "IDLE"
        /\ ~RecordAt(t).isLocked
        /\ RecordAt(t).checksum
              = calculateBufferHash(fromBase64(RecordAt(t).fileData))}

StaleSourceInWindow(r) ==
    /\ RecordAt(r).migrationStatus = "VERIFYING"
    /\ RecordAt(r).isLocked
    /\ Cardinality(CommittedCopies(r)) = 1
    /\ RecordsOf(RecordAt(r).logicalObject) = {r} \cup CommittedCopies(r)
    /\ \A t \in CommittedCopies(r) : RecordAt(t).createdAt >= now - TenMinutes

\* the recovery job is searching for a duplicate of r
SearchingFor(r) ==
    /\ recovery.pc = "search"
    /\ tierNames[recovery.i] = r[1]
    /\ recovery.stuckFiles[1].id = r[2]

NoStuck == \A r \in Records : ~IsStuck(RecordAt(r))

\* C12: a recovery run that comes to its end leaves no record it would
\* select; and from a state without such a record every step of a run finds
\* nothing and changes no record and no counter.  So the second of two runs
\* in a row mutates nothing and recovers nothing.
C12_SecondRunDoesNothing ==
    [][/\ (/\ recovery.pc # "idle"
           /\ recovery'.pc = "idle"
           /\ crashes' = crashes) => NoStuck'
       /\ (/\ recovery.pc # "idle"
           /\ recovery' # recovery
           /\ crashes' = crashes
           /\ recovery.stuckFiles = <<>>
           /\ NoStuck)
          => /\ collections' = collections
             /\ totalMigrations' = totalMigrations
             /\ recovery'.stuckFiles = <<>>]_vars

\* a run starts where an earlier run has reset a source: the object has two
\* IDLE records and nothing is left to recover
C12_Witness ==
    /\ recovery.pc = "find"
    /\ recovery.i = 1
    /\ NoStuck
    /\ \E r1, r2 \in Records :
          /\ r1 # r2
          /\ RecordAt(r1).logicalObject = RecordAt(r2).logicalObject
          /\ RecordAt(r1).migrationStatus = "IDLE"
          /\ RecordAt(r2).migrationStatus = "IDLE"

\* the call of p is between its lock and its end
InFlight(p) == Acquired(p) /\ mig[p].pc \notin {"returned", "threw"}

\* the records a call in flight is working on: its source and its target
WorkedOn ==
    {<<mig[p].currentTier, mig[p].fileId>> : p \in {q \in Procs : InFlight(q)}}
       \cup
    {<<mig[p].targetTier, mig[p].newFileDoc>> : p \in {q \in Procs : InFlight(q)}}

\* C13: a step of the recovery job never changes or deletes a record that a
\* migrate call in flight is working on.
C13_RecoveryLeavesActiveAlone ==
    [][\A r \in Records \cap WorkedOn :
          recovery' # recovery
             => /\ Exists(collections', r[1], r[2])
                /\ collections'[r[1]][r[2]] = RecordAt(r)]_vars

\* C14: when the manual request comes to its lock step and the record is
\* locked by someone else, it ends there, with an error.
C14_ManualFailsFastOnLocked ==
    [][(/\ mig["manual"].pc = "lock"
        /\ mig'["manual"] # mig["manual"]
        /\ crashes' = crashes
        /\ Exists(collections, mig["manual"].currentTier, mig["manual"].fileId)
        /\ collections[mig["manual"].currentTier][mig["manual"].fileId].isLocked)
       => mig'["manual"].pc = "threw"]_vars

\* C15: a record that is FAILED, with no migrate call in flight on it, is
\* still FAILED after any step that keeps it.
C15_FailedStaysFailed ==
    [][\A r \in Records \ WorkedOn :
          (/\ RecordAt(r).migrationStatus = "FAILED"
           /\ Exists(collections', r[1], r[2]))
          => collections'[r[1]][r[2]].migrationStatus = "FAILED"]_vars


\* the time since the last access of a record, in minutes
Age(record) == now - record.lastAccessDate

\* C16: a file last accessed at most 30 days ago is classified HOT, one of
\* 31 to 90 days WARM, one of 91 days or more COLD, and one without a last
\* access date COLD.
C16_ClassifyByAge ==
    \A r \in Records :
       LET file == RecordAt(r)
           tier == evaluateTier(file, now)
       IN IF file.lastAccessDate = NoDate
          THEN tier = "COLD"
          ELSE /\ Age(file) <= 30 * DayLength => tier = "HOT"
               /\ (Age(file) >= 31 * DayLength /\ Age(file) <= 90 * DayLength)
                    => tier = "WARM"
               /\ Age(file) >= 91 * DayLength => tier = "COLD"

\* the job has scanned a file in HOT that was last accessed exactly 31 days
\* ago and has listed it for WARM
C16_Witness ==
    /\ now = 0
    /\ filesToMigrate # <<>>
    /\ filesToMigrate[1].currentTier = "HOT"
    /\ filesToMigrate[1].targetTier = "WARM"
    /\ Age(collections["HOT"][filesToMigrate[1].id]) = 31 * DayLength

\* C17: shouldMigrate indicates a move exactly when the classification of
\* the record differs from the tier it is in, and then its targetTier is
\* that classification.
C17_ShouldMigrateIffMisplaced ==
    \A r \in Records :
       LET decision == shouldMigrate(RecordAt(r), r[1], now)
           verdict == evaluateTier(RecordAt(r), now)
       IN /\ decision.shouldMigrate <=> verdict # r[1]
          /\ decision.shouldMigrate => decision.targetTier = verdict

\* a manual request has asked shouldMigrate and was told to move the file
C17_Witness ==
    /\ now = 0
    /\ mig["manual"].pc = "lock"
    /\ mig["manual"].targetTier # mig["manual"].currentTier
    /\ mig["manual"].targetTier
         = evaluateTier(
              collections[mig["manual"].currentTier][mig["manual"].fileId], now)

\* C18: the candidates of a scan are exactly the records that are IDLE,
\* unlocked and in another tier than their classification, each once, with
\* the tier it was read from and its classification.
C18_CandidatesExact ==
    LET found == getFilesForMigration(collections, now)
        emitted == {<<found[k].currentTier, found[k].id, found[k].targetTier>> :
                      k \in 1..Len(found)}
        expected == {<<r[1], r[2], evaluateTier(RecordAt(r), now)>> :
                       r \in {q \in Records :
                                /\ RecordAt(q).migrationStatus = "IDLE"
                                /\ ~RecordAt(q).isLocked
                                /\ evaluateTier(RecordAt(q), now) # q[1]}}
    IN /\ emitted = expected
       /\ Len(found) = Cardinality(expected)

\* the job has just scanned and listed a file, while another record of the
\* wrong tier is not listed because it is not IDLE or is locked
C18_Witness ==
    /\ filesToMigrate # <<>>
    /\ filesToMigrate = getFilesForMigration(collections, now)
    /\ \E r \in Records :
          /\ evaluateTier(RecordAt(r), now) # r[1]
          /\ RecordAt(r).migrationStatus # "IDLE" \/ RecordAt(r).isLocked


\* r is the duplicate the recovery job has matched to the file it is on
MatchedDuplicate(r) ==
    /\ recovery.duplicate # <<>>
    /\ r = <<recovery.duplicate[1].tier, recovery.duplicate[1].id>>

\* C19: a step of a recovery run leaves every record as it is that is
\* FAILED, or that is neither PROCESSING/VERIFYING and locked nor the
\* duplicate matched to such a record.
C19_RecoveryTouchesOnlyStuck ==
    [][(/\ recovery.pc # "idle"
        /\ recovery' # recovery
        /\ crashes' = crashes)
       => \A r \in Records :
             (\/ RecordAt(r).migrationStatus = "FAILED"
              \/ ~IsStuck(RecordAt(r)) /\ ~MatchedDuplicate(r))
             => /\ Exists(collections', r[1], r[2])
                /\ collections'[r[1]][r[2]] = RecordAt(r)]_vars


\* C20: a migrateFile call whose id is not in the source tier throws
\* NotFound at its first step, having locked nothing and inserted nothing;
\* that step and the caller's step that follows leave every record as it
\* is, and the call is not started again.
C20_MissingFileFailsAtOnce ==
    [][\A p \in Procs :
          /\ (/\ mig[p].pc = "lock"
              /\ ~Exists(collections, mig[p].currentTier, mig[p].fileId)
              /\ mig'[p] # mig[p])
             => /\ mig'[p] = [mig[p] EXCEPT !.pc = "threw", !.error = "NotFound"]
                /\ mig'[p].fileInfo = <<>>
                /\ mig'[p].newFileDoc = NoId
                /\ collections' = collections
                /\ nextId' = nextId
                /\ totalMigrations' = totalMigrations
          /\ (/\ mig[p].pc = "threw"
              /\ mig[p].error = "NotFound"
              /\ mig'[p] # mig[p])
             => /\ collections' = collections
                /\ \/ mig'[p].pc = "idle"
                   \/ mig'[p].fileId # mig[p].fileId]_vars

\* a call has thrown NotFound: the file it was to move is gone from the
\* source tier
C20_Witness ==
    \E p \in Procs :
       /\ mig[p].pc = "threw"
       /\ mig[p].error = "NotFound"
       /\ ~Exists(collections, mig[p].currentTier, mig[p].fileId)
       /\ Records # {}


\* C21: when migrate has ended on a source whose stored checksum is set and
\* differs from the digest of its content (the store having rejected no
\* operation of the call), it has thrown an integrity error without
\* inserting a target, and the source is FAILED and unlocked.
C21_CorruptSourceEndsFailed ==
    \A p \in Procs :
       (/\ mig[p].pc = "threw"
        /\ Acquired(p)
        /\ mig[p].error # "BackendError"
        /\ mig[p].fileInfo[1].checksum # Null
        /\ mig[p].fileInfo[1].checksum # mig[p].sourceHashBefore)
       => LET f == mig[p]
              source == <<f.currentTier, f.fileId>>
          IN /\ f.error = "IntegrityError"
             /\ f.newFileDoc = NoId
             /\ source \in Records
             /\ RecordsOf(f.fileInfo[1].logicalObject) = {source}
             /\ RecordAt(source).migrationStatus = "FAILED"
             /\ ~RecordAt(source).isLocked

\* C22: when migrate has ended after the digest of the reloaded target
\* differed from sourceHashBefore, it has thrown an integrity error, the
\* target it inserted is gone, and the source is still there with its
\* content, FAILED and unlocked.
C22_MismatchRollsBackToFailed ==
    \A p \in Procs :
       (/\ mig[p].pc = "threw"
        /\ Acquired(p)
        /\ mig[p].targetHashAfter # Null
        /\ mig[p].targetHashAfter # mig[p].sourceHashBefore)
       => LET f == mig[p]
              source == <<f.currentTier, f.fileId>>
          IN /\ f.error = "IntegrityError"
             /\ ~Exists(collections, f.targetTier, f.newFileDoc)
             /\ source \in Records
             /\ RecordAt(source).fileData = f.fileInfo[1].fileData
             /\ RecordAt(source).migrationStatus = "FAILED"
             /\ ~RecordAt(source).isLocked

\* C23: when migrate has returned for a source whose stored checksum was
\* the digest d of its content, the committed target record holds
\* checksum = d, sourceChecksumBeforeMigration = d and
\* targetChecksumAfterMigration = d.
C23_AuditFieldsStored ==
    \A p \in Procs :
       (/\ mig[p].pc = "returned"
        /\ mig[p].fileInfo[1].checksum = mig[p].sourceHashBefore
        /\ Exists(collections, mig[p].targetTier, mig[p].newFileDoc))
       => LET d == mig[p].sourceHashBefore
              target == collections[mig[p].targetTier][mig[p].newFileDoc]
          IN /\ target.checksum = d
             /\ Get(target, "sourceChecksumBeforeMigration") = d
             /\ Get(target, "targetChecksumAfterMigration") = d

\* the records a step changes or removes
Touched ==
    {r \in Records :
        \/ ~Exists(collections', r[1], r[2])
        \/ collections'[r[1]][r[2]] # RecordAt(r)}

\* C24: a download or delete request that finds its record locked answers
\* with a conflict and changes nothing; no step of a request changes or
\* removes a record that is locked; and no record exists of an object the
\* server has deleted for a user.
C24_ApiRespectsLock ==
    /\ [][api' # api
            => /\ \A r \in Touched : ~RecordAt(r).isLocked
               /\ (api'.pc = "conflict" => collections' = collections)]_vars
    /\ [](\A r \in Records : RecordAt(r).logicalObject \notin api.deleted)

\* the step p takes is on the way of a call that has not failed
OnSuccessPath(p) ==
    /\ mig'[p] # mig[p]
    /\ mig'[p].error = Null

\* C25: the steps of a migrate call that has not failed change the records
\* in this order and in no other way: the lock sets the source PROCESSING
\* and locked, then the source is set VERIFYING, then the target is inserted
\* VERIFYING and locked, then the target is set IDLE and unlocked (its
\* digest having been compared with sourceHashBefore and found equal), then
\* the source is deleted; nothing changes a record after that.
C25_MutationOrder ==
    [][\A p \in Procs :
          OnSuccessPath(p) =>
             LET f == mig[p]
                 g == mig'[p]
                 source == <<f.currentTier, f.fileId>>
                 target == <<f.targetTier, g.newFileDoc>>
                 others == Records \ {source, target}
                 Kept(r) == /\ Exists(collections', r[1], r[2])
                            /\ collections'[r[1]][r[2]] = RecordAt(r)
             IN /\ \A r \in others : Kept(r)
                /\ CASE f.pc = "lock" ->
                          /\ collections'[source[1]][source[2]] =
                               [RecordAt(source) EXCEPT
                                   !.migrationStatus = "PROCESSING",
                                   !.isLocked = TRUE]
                          /\ g.newFileDoc = NoId
                     [] f.pc = "setVerifying" ->
                          /\ RecordAt(source).migrationStatus = "PROCESSING"
                          /\ collections'[source[1]][source[2]] =
                               [RecordAt(source) EXCEPT
                                   !.migrationStatus = "VERIFYING"]
                          /\ g.newFileDoc = NoId
                     [] f.pc = "save" ->
                          /\ Kept(source)
                          /\ RecordAt(source).migrationStatus = "VERIFYING"
                          /\ target \notin Records
                          /\ collections'[target[1]][target[2]].migrationStatus
                               = "VERIFYING"
                          /\ collections'[target[1]][target[2]].isLocked
                     [] f.pc = "commit" ->
                          /\ Kept(source)
                          /\ f.targetHashAfter = f.sourceHashBefore
                          /\ f.targetHashAfter = verifyFileIntegrity(RecordAt(target))
                          /\ RecordAt(target).migrationStatus = "VERIFYING"
                          /\ collections'[target[1]][target[2]] =
                               [RecordAt(target) EXCEPT
                                   !.migrationStatus = "IDLE",
                                   !.isLocked = FALSE]
                     [] f.pc = "deleteSource" ->
                          /\ source \in Records
                          /\ ~Exists(collections', source[1], source[2])
                          /\ Kept(target)
                          /\ RecordAt(target).migrationStatus = "IDLE"
                     [] OTHER -> collections' = collections]_vars

\* a call is past the deletion of the source: the target is committed and
\* the migration has been counted
C25_Witness ==
    \E p \in Procs :
       /\ mig[p].pc = "final"
       /\ totalMigrations > 0
       /\ ~Exists(collections, mig[p].currentTier, mig[p].fileId)
       /\ Exists(collections, mig[p].targetTier, mig[p].newFileDoc)
       /\ collections[mig[p].targetTier][mig[p].newFileDoc].migrationStatus
            = "IDLE"

\* the fields migrate copies from the source to the target
CopiedFields ==
    {"fileName", "originalFileName", "size", "contentType", "uploadDate",
     "lastAccessDate"}

\* C26: the record the copy step inserts has the name, original name, size,
\* content type, uploadDate and lastAccessDate of the source, its content
\* (unless the store garbled the write), checksum = sourceHashBefore,
\* status VERIFYING, locked, retryAttempts 0; and it is VERIFYING and locked
\* and unchanged at every step of the call before the commit.
C26_InsertedTarget ==
    [][\A p \in Procs :
          mig'[p] # mig[p] =>
             LET f == mig[p]
                 g == mig'[p]
                 source == RecordAt(<<f.currentTier, f.fileId>>)
                 inserted == collections'[f.targetTier][g.newFileDoc]
             IN /\ (f.pc = "save" /\ g.pc = "reload") =>
                     /\ ~Exists(collections, f.targetTier, g.newFileDoc)
                     /\ \A field \in CopiedFields :
                           inserted[field] = source[field]
                     /\ faults' = faults => inserted.fileData = source.fileData
                     /\ inserted.checksum = f.sourceHashBefore
                     /\ inserted.migrationStatus = "VERIFYING"
                     /\ inserted.isLocked
                     /\ inserted.retryAttempts = 0
                /\ f.pc \in {"reload", "commit"} =>
                     /\ Exists(collections, f.targetTier, f.newFileDoc)
                     /\ collections[f.targetTier][f.newFileDoc].migrationStatus
                          = "VERIFYING"
                     /\ collections[f.targetTier][f.newFileDoc].isLocked
                /\ f.pc = "reload" =>
                     collections'[f.targetTier][f.newFileDoc]
                        = collections[f.targetTier][f.newFileDoc]]_vars

\* the copy of a file uploaded ten days ago is about to be committed: it
\* holds the source's content and upload date
C26_Witness ==
    \E p \in Procs :
       /\ mig[p].pc = "commit"
       /\ Exists(collections, mig[p].targetTier, mig[p].newFileDoc)
       /\ Exists(collections, mig[p].currentTier, mig[p].fileId)
       /\ collections[mig[p].targetTier][mig[p].newFileDoc].uploadDate
            = 0 - 10 * DayLength
       /\ collections[mig[p].targetTier][mig[p].newFileDoc].fileData
            = collections[mig[p].currentTier][mig[p].fileId].fileData

\* C27: when a migrate call that acquired the lock has thrown, the source
\* is unlocked, and it is FAILED with the error of exhausted retries if the
\* incremented retry count has reached MAX_RETRY_ATTEMPTS, and IDLE with the
\* error that was thrown otherwise.
C27_FailureUnlocksSource ==
    \A p \in Procs :
       (mig[p].pc = "threw" /\ Acquired(p)) =>
          LET f == mig[p]
              source == <<f.currentTier, f.fileId>>
          IN /\ source \in Records
             /\ ~RecordAt(source).isLocked
             /\ IF f.fileInfo[1].retryAttempts >= MAX_RETRY_ATTEMPTS
                THEN /\ RecordAt(source).migrationStatus = "FAILED"
                     /\ f.error = "MaxRetriesExceeded"
                ELSE /\ RecordAt(source).migrationStatus = "IDLE"
                     /\ f.error \in {"IntegrityError", "BackendError",
                                     "TypeError"}

\* the record the recovery job is on
CurrentStuck == <<tierNames[recovery.i], recovery.stuckFiles[1].id>>

\* C28: the step of a recovery run on a stuck record that is PROCESSING and
\* locked sets that record to IDLE and unlocked, changes no other field of
\* it, changes no other record, and counts no migration.
C28_ProcessingResetInPlace ==
    [][(/\ recovery.pc = "reset"
        /\ recovery' # recovery
        /\ crashes' = crashes
        /\ recovery.stuckFiles[1].doc.migrationStatus = "PROCESSING")
       => /\ CurrentStuck \in Records
          /\ RecordAt(CurrentStuck).migrationStatus = "PROCESSING"
          /\ collections' =
               [collections EXCEPT ![CurrentStuck[1]][CurrentStuck[2]] =
                   [@ EXCEPT !.migrationStatus = "IDLE", !.isLocked = FALSE]]
          /\ totalMigrations' = totalMigrations]_vars

\* a recovery run is about to reset a record that a crash left PROCESSING
\* and locked, while another tier holds a record too
C28_Witness ==
    /\ recovery.pc = "reset"
    /\ recovery.stuckFiles[1].doc.migrationStatus = "PROCESSING"
    /\ CurrentStuck \in Records
    /\ RecordAt(CurrentStuck).isLocked
    /\ crashes > 0
    /\ \E r \in Records : r[1] # CurrentStuck[1]

\* candidate is a copy of file by the stated criteria: same name, a
\* checksum equal to the file's checksum or to its
\* sourceChecksumBeforeMigration, created within the last ten minutes, and
\* PROCESSING, VERIFYING or IDLE
MatchesByChecksum(file, candidate, clock) ==
    /\ candidate.fileName = file.fileName
    /\ \/ candidate.checksum = file.checksum
       \/ /\ Get(file, "sourceChecksumBeforeMigration") # Null
          /\ candidate.checksum = Get(file, "sourceChecksumBeforeMigration")
    /\ candidate.createdAt >= clock - TenMinutes
    /\ candidate.migrationStatus \in {"PROCESSING", "VERIFYING", "IDLE"}

\* the record the recovery job has taken as the duplicate
TakenDuplicate == <<recovery.duplicate[1].tier, recovery.duplicate[1].id>>

NoCopyElsewhere ==
    \A r \in Records :
       r[1] # CurrentStuck[1]
          => ~MatchesByChecksum(recovery.stuckFiles[1].doc, RecordAt(r), now)

\* C30: for a stuck record that is VERIFYING and locked and has no copy by
\* the stated criteria in any other tier, no step of the recovery run
\* deletes a record, and the step that leaves the file has set the source
\* IDLE and unlocked, so that the candidate query selects it again.
C30_VerifyingWithoutMatch ==
    [][(/\ recovery.pc \in {"search", "deleteSource", "reset"}
        /\ recovery' # recovery
        /\ crashes' = crashes
        /\ recovery.stuckFiles[1].doc.migrationStatus = "VERIFYING"
        /\ NoCopyElsewhere)
       => /\ \A r \in Records : Exists(collections', r[1], r[2])
          /\ recovery.pc = "reset" =>
               CurrentStuck[2] \in IdleUnlocked(collections', CurrentStuck[1])]_vars


\* the sweep is between two candidates: the last call returned or threw
BetweenCalls == mig["sweep"].pc \in {"returned", "threw"}

\* C31: within one sweep the candidates are migrated one at a time and in
\* the order of the scan: the call in flight is the one for the head of the
\* remaining list, a call starts only when the job was idle (the first) or
\* the previous call returned or threw, and after a call that returned or
\* threw alike the job goes on with the next candidate, ending only when
\* none is left.
C31_SweepSequential ==
    [][LET f == mig["sweep"]
           g == mig'["sweep"]
       IN
       /\ (f.pc # "idle") =>
             /\ filesToMigrate # <<>>
             /\ f.fileId = filesToMigrate[1].id
             /\ f.currentTier = filesToMigrate[1].currentTier
             /\ f.targetTier = filesToMigrate[1].targetTier
       /\ (g.pc = "lock" /\ f.pc # "lock") =>
             f.pc \in {"idle", "returned", "threw"}
       /\ (f.pc = "idle" /\ g.pc # "idle") =>
             /\ filesToMigrate = <<>>
             /\ filesToMigrate' = getFilesForMigration(collections, now)
             /\ g.pc = "lock"
       /\ (BetweenCalls /\ g # f) =>
             /\ filesToMigrate' = Tail(filesToMigrate)
             /\ collections' = collections
             /\ IF Len(filesToMigrate) > 1
                THEN g = CallFrame(filesToMigrate[2].id,
                                   filesToMigrate[2].currentTier,
                                   filesToMigrate[2].targetTier)
                ELSE g = IdleFrame
       /\ (~BetweenCalls /\ f.pc # "idle") =>
             filesToMigrate' = filesToMigrate
      ]_vars

\* the first of two candidates failed and the call for the second has
\* started
C31_Witness ==
    /\ mig["sweep"].pc = "lock"
    /\ Len(filesToMigrate) = 1
    /\ faults # NoFaults
    /\ nextId \in {3, 4}
    /\ totalMigrations = 0
    /\ \A r \in Records : /\ RecordAt(r).migrationStatus = "IDLE"
                          /\ ~RecordAt(r).isLocked
                          /\ evaluateTier(RecordAt(r), now) # r[1]

\* the call of p has deleted its source, and the target it committed is
\* stored
SourceGoneTargetStored(p) ==
    /\ Acquired(p)
    /\ mig[p].newFileDoc \notin {NoId, UnsavedId}
    /\ <<mig[p].currentTier, mig[p].fileId>> \notin Records
    /\ <<mig[p].targetTier, mig[p].newFileDoc>> \in Records

\* C32: once a migrate call has deleted the source record, no later step of
\* the call (the increment of the migration count or the final reload
\* throwing, and the cleanup that follows) deletes the committed target.
C32_TargetSurvivesLateFailure ==
    [][\A p \in Procs :
          SourceGoneTargetStored(p) =>
             Exists(collections', mig[p].targetTier, mig[p].newFileDoc)
      ]_vars

\* the digest of the bytes a record stores
StoredDigest(record) == calculateBufferHash(fromBase64(record.fileData))

\* C33: when the recovery job deletes a stuck VERIFYING source because of
\* the copy of it that it matched in another tier, the bytes that copy
\* stores have the digest of the source's bytes.
C33_RecoveryDeletesOnlyForVerifiedCopy ==
    [][(/\ recovery.pc = "deleteSource"
        /\ CurrentStuck \in Records
        /\ ~Exists(collections', CurrentStuck[1], CurrentStuck[2])
        /\ recovery.duplicate[1].doc.logicalObject
              = RecordAt(CurrentStuck).logicalObject)
       => LET duplicate ==
                 <<recovery.duplicate[1].tier, recovery.duplicate[1].id>>
          IN /\ duplicate \in Records
             /\ StoredDigest(RecordAt(duplicate))
                  = StoredDigest(RecordAt(CurrentStuck))
      ]_vars

\* the record the recovery run matched is an object of its own, not a copy
\* of the stuck source, and it has the source's name and content
MatchedAnotherObject ==
    /\ recovery.pc \in {"deleteSource", "increment", "unlockTarget"}
    /\ recovery.duplicate # <<>>
    /\ TakenDuplicate \in Records
    /\ recovery.duplicate[1].doc.logicalObject
          # recovery.stuckFiles[1].doc.logicalObject
    /\ recovery.duplicate[1].doc.fileName
          = recovery.stuckFiles[1].doc.fileName
    /\ StoredDigest(recovery.duplicate[1].doc)
          = StoredDigest(recovery.stuckFiles[1].doc)

\* C34: when the record the recovery run matched for a stuck VERIFYING
\* source is a different logical object with the same name and the same
\* content, no step of the run deletes the stuck source or changes the
\* status or the lock of the other object.
C34_RecoveryIgnoresOtherObject ==
    [][(MatchedAnotherObject /\ recovery' # recovery /\ crashes' = crashes)
       => /\ CurrentStuck \in Records =>
               Exists(collections', CurrentStuck[1], CurrentStuck[2])
          /\ Exists(collections', TakenDuplicate[1], TakenDuplicate[2])
          /\ collections'[TakenDuplicate[1]][TakenDuplicate[2]].migrationStatus
               = RecordAt(TakenDuplicate).migrationStatus
          /\ collections'[TakenDuplicate[1]][TakenDuplicate[2]].isLocked
               = RecordAt(TakenDuplicate).isLocked
      ]_vars

\* the records a call of p works on: its source, and the target it inserts
OwnRecords(p) ==
    {<<mig[p].currentTier, mig[p].fileId>>,
     <<mig[p].targetTier, mig[p].newFileDoc>>,
     <<mig[p].targetTier, mig'[p].newFileDoc>>}

\* C35: a step of a migrate call, on its way to success or to failure,
\* changes no record other than its source and the target it inserted:
\* every other record of the three tiers is there after the step with all
\* its fields as before, and no record appears but the target.
C35_MigrateFrame ==
    [][\A p \in Procs :
          (mig[p].pc \notin {"idle", "returned", "threw"} /\ mig'[p] # mig[p])
          => /\ \A r \in Records \ OwnRecords(p) :
                   /\ Exists(collections', r[1], r[2])
                   /\ collections'[r[1]][r[2]] = RecordAt(r)
             /\ \A t \in Tiers : \A id \in DOMAIN collections'[t] :
                   <<t, id>> \in Records \cup OwnRecords(p)
      ]_vars

\* a call that inserted its target next to another record of the target
\* tier has thrown, and a record of another object is still in the source
\* tier or in the target tier
C35_Witness ==
    /\ mig["sweep"].pc = "threw"
    /\ Acquired("sweep")
    /\ mig["sweep"].newFileDoc \notin {NoId, UnsavedId}
    /\ \E r \in Records :
          /\ r[1] = mig["sweep"].targetTier
          /\ RecordAt(r).logicalObject
                # mig["sweep"].fileInfo[1].logicalObject

\* the objects a scan taken now would emit
Emitted ==
    LET found == getFilesForMigration(collections, now) IN
    {collections[found[k].currentTier][found[k].id].logicalObject :
        k \in 1..Len(found)}

\* C36: when a migrate call has returned, the committed target has the
\* source's lastAccessDate, the tier it is in is the tier the classifier
\* names for it at the clock of the scan, and a scan taken at that clock
\* does not emit the object.
C36_MigrationStable ==
    \A p \in Procs :
       mig[p].pc = "returned" =>
          LET f == mig[p]
              target == <<f.targetTier, f.newFileDoc>>
          IN /\ target \in Records
             /\ RecordAt(target).lastAccessDate = f.fileInfo[1].lastAccessDate
             /\ evaluateTier(RecordAt(target), now) = f.targetTier
             /\ f.fileInfo[1].logicalObject \notin Emitted

\* a call has returned while the other file is still in the wrong tier: a
\* scan taken now emits that one only
C36_Witness ==
    /\ mig["sweep"].pc = "returned"
    /\ Emitted # {}
    /\ mig["sweep"].fileInfo[1].logicalObject \notin Emitted

\* the places a record can be in
Places == Tiers \X (1..(MaxIds + 1))

\* no call is in flight and the record at r is PROCESSING or VERIFYING and
\* locked: the coordinator that locked it has crashed
LeftByCrash(r) ==
    /\ Quiet
    /\ crashes > 0
    /\ r \in Records
    /\ IsStuck(RecordAt(r))

\* the record at r is IDLE and unlocked, or there is no record at r
Released(r) ==
    r \in Records =>
       /\ RecordAt(r).migrationStatus = "IDLE"
       /\ ~RecordAt(r).isLocked

\* C37: with the recovery job run again and again, every record a crashed
\* coordinator left PROCESSING or VERIFYING and locked is eventually IDLE
\* and unlocked, or deleted.
C37_StuckEventuallyReleased ==
    \A r \in Places : LeftByCrash(r) ~> Released(r)

\* a crash has left a source and the copy of it both VERIFYING and locked
C37_Witness ==
    /\ recovery.pc = "idle"
    /\ \E r, q \in Places :
          /\ r # q
          /\ LeftByCrash(r)
          /\ LeftByCrash(q)
          /\ RecordAt(r).migrationStatus = "VERIFYING"
          /\ RecordAt(q).migrationStatus = "VERIFYING"

\* the two objects of the runs of the sweep
SweepObjects == {1, 2}

\* the object has an IDLE, unlocked record in a tier that is not the one
\* the classifier names for it
MisplacedIdle(object) ==
    \E r \in RecordsOf(object) :
       /\ RecordAt(r).migrationStatus = "IDLE"
       /\ ~RecordAt(r).isLocked
       /\ evaluateTier(RecordAt(r), now) # r[1]

\* the object has one record: IDLE, unlocked, with the content it had, in
\* the tier the classifier names for it
Placed(object) ==
    /\ Cardinality(RecordsOf(object)) = 1
    /\ \A r \in RecordsOf(object) :
          /\ RecordAt(r).migrationStatus = "IDLE"
          /\ ~RecordAt(r).isLocked
          /\ evaluateTier(RecordAt(r), now) = r[1]
          /\ RecordAt(r).fileData = toBase64("b1")

\* C38: with the job run again and again, an object that is IDLE and
\* unlocked in a tier other than the one the classifier names is eventually
\* IDLE and unlocked in the tier the classifier names, unless the store
\* garbles a write or rejects an operation on the way.
C38_MisplacedEventuallyPlaced ==
    \A object \in SweepObjects :
       (MisplacedIdle(object) /\ faults = NoFaults)
          ~> (Placed(object) \/ faults # NoFaults)

\* both files were in the wrong tier, and the job has moved both
C38_Witness ==
    /\ faults = NoFaults
    /\ totalMigrations = 2
    /\ mig["sweep"].pc = "idle"
    /\ \A object \in SweepObjects : Placed(object)

\* the objects whose move has completed: the record the object was uploaded
\* as (its _id is the object's label) is gone, and the object is stored as a
\* copy.  In these runs an object is moved once at most: the copy is in the
\* tier the classifier names and stays there.
MovedObjects ==
    {object \in 1..bound.ids :
        /\ RecordsOf(object) # {}
        /\ \A r \in RecordsOf(object) : r[2] # object}

\* C39: when nothing is running, the migration count is the number of
\* moves that have completed, whether migrate or the recovery job deleted
\* the source: each is counted once, and nothing else is counted.
C39_CountMatchesMoves ==
    Calm => totalMigrations = Cardinality(MovedObjects)

\* the entries the buffer holds are the last MAX_ENTRIES of the console
\* calls made so far, or all of them if they are fewer, oldest first
MostRecentInOrder ==
    LET held == IF log.pushed < MAX_ENTRIES THEN log.pushed ELSE MAX_ENTRIES IN
    /\ Len(log.entries) = held
    /\ \A k \in 1..held : log.entries[k] = log.pushed - held + k

\* C40: after any sequence of console calls the buffer holds at most
\* MAX_ENTRIES entries, and they are the most recently pushed ones in the
\* order of the calls; getLogs returns an array equal to the buffer's that
\* is not the buffer's: whatever its caller does to it, the buffer holds
\* the same entries in the same order, and a later console call does not
\* show in it.
C40_LogBufferBounded ==
    /\ [](Len(log.entries) <= MAX_ENTRIES /\ MostRecentInOrder)
    /\ [][/\ (~log.held /\ log'.held) =>
                 (log'.result = log.entries /\ log'.entries = log.entries)
          /\ (log.held /\ log'.pushed = log.pushed) =>
                 log'.entries = log.entries
          /\ (log.held /\ log'.held /\ log'.pushed # log.pushed) =>
                 log'.result = log.result
         ]_vars

\* more than MAX_ENTRIES console calls were made, so that the oldest
\* entries were dropped, and a caller has emptied or shortened the array it
\* got from getLogs
C40_Witness ==
    /\ log.pushed > MAX_ENTRIES
    /\ Len(log.entries) = MAX_ENTRIES
    /\ log.held
    /\ log.mutated
    /\ Len(log.result) < MAX_ENTRIES

====
